---- MODULE Spec2Model ----
(***************************************************************************)
(* Model of @carv/telemetry: the histogram aggregator and batcher of       *)
(* src/src/batcher.ts, the boundaries configuration of                     *)
(* src/unnamed/part_001 (boundaries.ts) and the metric creation, update    *)
(* and export paths of src/src/telemetry.ts and src/src/facades.ts.        *)
(*                                                                         *)
(* Numbers are modelled as integers.  A JavaScript value that may be       *)
(* undefined, null, an array, ... is a record with a "tag" field.          *)
(* An optional numeric field is a sequence: << >> when absent, <<n>> when  *)
(* present.                                                                *)
(***************************************************************************)
EXTENDS Integers, Sequences, FiniteSets, TLC

\* ------------------------------------------------------------------ bounds
\* longest explicit boundaries array handed to the program
MaxBoundaries == 2
\* explicit boundary values are drawn from 1..MaxBoundary
MaxBoundary == 2
\* recorded values are drawn from -1..MaxValue
MaxValue == 3
\* number of update calls in one behaviour
MaxUpdates == 2
\* the clock read by hrTime() runs from 0 to MaxTime
MaxTime == 1
\* number of checkpoints kept for inspection
MaxPoints == 2

\* the count field of a generated configuration is drawn from -1..MaxCount
MaxCount == 2

\* the start argument of linear, exponential and generate is drawn from -1..MaxStart
MaxStart == 2
\* their count argument is drawn from -1..MaxGenCount
MaxGenCount == 5
\* the width of linear is drawn from -1..MaxStep, the factor of exponential from 0..MaxStep
MaxStep == 3
\* number of collect() calls in one behaviour
MaxCycles == 2
\* observer callbacks observe and return values drawn from 1..MaxObserved
MaxObserved == 2

Values == (0 - 1)..MaxValue

RECURSIVE SeqsUpTo(_, _)
SeqsUpTo(S, n) ==
  IF n = 0 THEN {<< >>}
  ELSE LET shorter == SeqsUpTo(S, n - 1)
       IN  shorter \cup {Append(s, x) : s \in {t \in shorter : Len(t) = n - 1}, x \in S}

\* the explicit number[] inputs: every order, duplicates and the empty array
ArrayInputs == SeqsUpTo(1..MaxBoundary, MaxBoundaries)

RECURSIVE SumSeq(_)
SumSeq(s) == IF s = << >> THEN 0 ELSE Head(s) + SumSeq(Tail(s))

\* ------------------------------------------------------- JavaScript values
Undefined == [tag |-> "undefined"]
Null == [tag |-> "null"]
Arr(s) == [tag |-> "array", items |-> s]
\* a value that is neither undefined, null, an array, a function nor an object
Primitive == [tag |-> "number"]

\* is.array / Array.isArray
IsArray(v) == v.tag = "array"

\* ------------------------------------------------------------ variables
VARIABLES
  agg,        \* SpecAgg: the stand-alone aggregator, or NoAggregator
  points,     \* SpecAgg: the checkpoints toPoint() has returned so far
  updates,    \* SpecAgg: the number of update() calls made so far
  touched,    \* SpecAgg: the clock reading at construction or at the latest update()
  kMetrics,   \* Spec: the registry, name -> metric (options, bound instrument) or NoMetric
  batchMap,   \* Spec: the names whose records the exporter's batcher holds
  recorded,   \* Spec: per name, the values handed to update/record/observe, in call order
  call,       \* SpecBnd: the latest call of a boundaries function: name, arguments, result
  callback,   \* SpecObs: per name, the callback given to createValueObserver, or Undefined
  cycle,      \* SpecObs: the collect() in progress, or the one that returned last
  text,       \* SpecObs: what the latest collect() or exportMetrics() returned
  batch,      \* SpecBatch: the batch observer, its callback and its latest invocation
  lbl,        \* SpecLbl: a telemetry with labels, its sum metric, facades and batchers
  reg,        \* SpecReg: the registry of a telemetry and the calls of get's factories
  boot,       \* SpecBoot: the plugins given to use() and the boot of the telemetry
  now,        \* the clock hrTime() reads
  lastOp      \* the call that produced this state and how it ended

vars == <<agg, points, updates, touched, kMetrics, batchMap, recorded, call, callback, cycle,
          text, batch, lbl, reg, boot, now, lastOp>>

\* the variables of the boundaries calls
bndVars == <<call>>

\* the variables of the observer callbacks and of the collect() cycle
obsVars == <<callback, cycle, text>>

\* the variables of the batch observer
batVars == <<batch>>

\* the variables of the labelled sum metric
lblVars == <<lbl>>

\* the variables of the registry
regVars == <<reg>>

\* the variables of the plugins
bootVars == <<boot>>

NoAggregator == [kind |-> "none"]

\* the metric names used; they satisfy validateName's pattern (src/unnamed/part_000:16)
Names == {"m1"}

NoMetric == [kind |-> "none"]

\* hrTime(): the current reading of the clock
hrTime == now

\* ------------------------------------- LessThenOrEqualHistogramAggregator
\* Array.prototype.sort((a, b) => a - b): numeric ascending, as an insertion sort
RECURSIVE InsertSorted(_, _)
InsertSorted(s, x) ==
  IF s = << >> THEN <<x>>
  ELSE IF x - Head(s) < 0 THEN <<x>> \o s
       ELSE <<Head(s)>> \o InsertSorted(Tail(s), x)

RECURSIVE SortAscending(_)
SortAscending(s) ==
  IF s = << >> THEN << >>
  ELSE InsertSorted(SortAscending(SubSeq(s, 1, Len(s) - 1)), s[Len(s)])

\* a constructor that keeps the caller's order
KeepOrder(s) == s

\* batcher.ts:31  this._boundaries = boundaries.sort((a, b) => a - b)
sortBoundaries(s) == SortAscending(s)

\* a checkpoint without the slot for values above every boundary
newEmptyCheckpointNoOverflow(boundaries) ==
  [buckets |-> [boundaries |-> boundaries,
                counts |-> [i \in 1..Len(boundaries) |-> 0]],
   sum |-> 0,
   count |-> 0]

\* batcher.ts:59-68
newEmptyCheckpoint(boundaries) ==
  [buckets |-> [boundaries |-> boundaries,
                counts |-> [i \in 1..(Len(boundaries) + 1) |-> 0]],
   sum |-> 0,
   count |-> 0]

\* a constructor that only asks for an array
ConstructorAcceptsAnyArray(boundaries) == IsArray(boundaries)

\* batcher.ts:24-27: the assertion of the constructor
ConstructorAccepts(boundaries) == IsArray(boundaries) /\ Len(boundaries.items) > 0

\* batcher.ts:22-34: the aggregator a successful construction yields
NewHistogramAggregator(boundaries, time) ==
  LET sorted == sortBoundaries(boundaries.items)
  IN  [kind |-> "HISTOGRAM",
       boundaries |-> sorted,
       current |-> newEmptyCheckpoint(sorted),
       lastUpdateTime |-> time]

\* exclusive upper bound, as in the SDK's own histogram
LessThan(value, boundary) == value < boundary

\* batcher.ts:42  value <= this._boundaries[i]
LessThenOrEqual(value, boundary) == value <= boundary

\* batcher.ts:41-49: the bucket scan; slot Len(boundaries) + 1 is the overflow
RECURSIVE FindBucket(_, _, _)
FindBucket(boundaries, value, i) ==
  IF i > Len(boundaries) THEN Len(boundaries) + 1
  ELSE IF LessThenOrEqual(value, boundaries[i]) THEN i
       ELSE FindBucket(boundaries, value, i + 1)

\* batcher.ts:36-50
HistogramUpdate(a, value, time) ==
  LET i == FindBucket(a.boundaries, value, 1)
  IN  [a EXCEPT !.lastUpdateTime = time,
                !.current.count = @ + 1,
                !.current.sum = @ + value,
                !.current.buckets.counts[i] = @ + 1]

\* a checkpoint stamped with the time of the call
ToPointNow(a) == [value |-> "current", timestamp |-> hrTime]

\* batcher.ts:52-57: value is the live _current object itself, not a copy
ToPoint(a) == [value |-> "current", timestamp |-> a.lastUpdateTime]

\* what a holder of a checkpoint reads through point.value
Deref(a, ref) == a.current

\* ------------------------------------------ boundaries (src/unnamed/part_001)
Return(v) == [value |-> v, ok |-> TRUE, error |-> ""]
Throw(e) == [value |-> Undefined, ok |-> FALSE, error |-> e]

\* a zero-argument producer of another configuration
Fn(c) == [tag |-> "function", returns |-> c]

\* a descriptor object; an absent field is << >>
Obj(type, start, count, width, factor) ==
  [tag |-> "object", count |-> count, type |-> type, start |-> start,
   width |-> width, factor |-> factor]

\* A number handed to the boundaries functions is a sequence: << >> when the
\* argument is omitted (undefined), <<n>> for the finite number n, and one of
\* the two pairs below for a number that is not finite.
NaN == <<0, 0>>
PosInfinity == <<1, 0>>

\* is.finite: false for undefined, NaN and Infinity
IsFinite(n) == Len(n) = 1

\* x > y for a finite y: false when x is undefined (it converts to NaN) or NaN
GreaterThan(x, y) == IF IsFinite(x) THEN x[1] > y ELSE x = PosInfinity

\* a callback (value, index) => number
Callback(op, by) == [tag |-> "function", op |-> op, by |-> by]

\* is.function
IsFunction(v) == v.tag = "function"

\* roundTo of @carv/stdlib; rounding to decimal places leaves an integer as it is
roundTo(x) == x

\* part_001:72 and :79, the next callbacks of linear and exponential, and a
\* callback of a direct caller of generate that uses the index
applyNext(next, value, index) ==
  IF next.op = "add" THEN roundTo(value + next.by[1])
  ELSE IF next.op = "multiply" THEN roundTo(value * next.by[1])
  ELSE value + index

\* a loop that runs once more than count asks for
RECURSIVE generateLoopInclusive(_, _, _, _, _)
generateLoopInclusive(array, value, index, count, next) ==
  IF ~(index <= count) THEN array
  ELSE generateLoopInclusive(Append(array, value), applyNext(next, value, index),
                             index + 1, count, next)

\* part_001:61-64
RECURSIVE generateLoop(_, _, _, _, _)
generateLoop(array, value, index, count, next) ==
  IF ~(index < count) THEN array
  ELSE generateLoop(Append(array, value), applyNext(next, value, index),
                    index + 1, count, next)

\* part_001:50-67; new Array(count) throws a RangeError for a negative length
generate(value, count, next) ==
  IF ~IsFinite(value) THEN Throw("AssertionError")
  ELSE IF ~IsFinite(count) THEN Throw("AssertionError")
  ELSE IF ~IsFunction(next) THEN Throw("AssertionError")
  ELSE IF count[1] < 0 THEN Throw("RangeError")
  ELSE Return(Arr(generateLoop(<< >>, value[1], 0, count[1], next)))

\* a linear that adds the start value whatever width is given
linearStepStart(start, count, widthArg) ==
  IF ~GreaterThan(IF widthArg = << >> THEN start ELSE widthArg, 0)
  THEN Throw("AssertionError")
  ELSE generate(start, count, Callback("add", start))

\* part_001:69-73; width = start is the default of an omitted argument
linear(start, count, widthArg) ==
  LET width == IF widthArg = << >> THEN start ELSE widthArg
  IN  IF ~GreaterThan(width, 0) THEN Throw("AssertionError")
      ELSE generate(start, count, Callback("add", width))

\* an exponential that multiplies by 2 whatever factor is given
exponentialDoubling(start, count, factorArg) ==
  IF ~GreaterThan(start, 0) \/ ~GreaterThan(IF factorArg = << >> THEN <<2>> ELSE factorArg, 1)
  THEN Throw("AssertionError")
  ELSE generate(start, count, Callback("multiply", <<2>>))

\* part_001:75-80
exponential(start, count, factorArg) ==
  LET factor == IF factorArg = << >> THEN <<2>> ELSE factorArg
  IN  IF ~GreaterThan(start, 0) THEN Throw("AssertionError")
      ELSE IF ~GreaterThan(factor, 1) THEN Throw("AssertionError")
      ELSE generate(start, count, Callback("multiply", factor))

\* part_001:32-45: the branch of create for a descriptor object
createFromObject(config) ==
  IF config.type = <<"linear">> \/ config.width # << >>
  THEN LET width == IF config.width = << >> THEN <<1>> ELSE config.width
           start == IF config.start = << >> THEN width ELSE config.start
       IN  linear(start, config.count, width)
  ELSE LET start == IF config.start = << >> THEN <<1>> ELSE config.start
       IN  exponential(start, config.count, config.factor)

\* a create that calls a producer but does not resolve what it returns
createOneCall(config) ==
  IF config.tag = "undefined" \/ config.tag = "array" THEN Return(config)
  ELSE IF config.tag = "function" THEN Return(config.returns)
  ELSE IF config.tag = "object" THEN createFromObject(config)
  ELSE Throw("TypeError")

\* a create that reads only the type tag to tell linear from exponential
RECURSIVE createByTypeOnly(_)
createByTypeOnly(config) ==
  IF config.tag = "undefined" \/ config.tag = "array" THEN Return(config)
  ELSE IF config.tag = "function" THEN createByTypeOnly(config.returns)
  ELSE IF config.tag = "object" THEN
    createFromObject([config EXCEPT !.width = IF config.type = <<"linear">> THEN @ ELSE << >>])
  ELSE Throw("TypeError")

\* a create that takes null for undefined
RECURSIVE createNullable(_)
createNullable(config) ==
  IF config.tag = "undefined" \/ config.tag = "array" THEN Return(config)
  ELSE IF config.tag = "null" THEN Return(Undefined)
  ELSE IF config.tag = "function" THEN createNullable(config.returns)
  ELSE IF config.tag = "object" THEN createFromObject(config)
  ELSE Throw("TypeError")

\* part_001:23-48
RECURSIVE create(_)
create(config) ==
  IF config.tag = "undefined" \/ config.tag = "array" THEN Return(config)
  ELSE IF config.tag = "function" THEN create(config.returns)
  ELSE IF config.tag = "object" THEN createFromObject(config)
  ELSE Throw("TypeError")

\* ------------------------------------------- aggregators of the SDK, batcher
\* LastValueAggregator of @opentelemetry/metrics: keeps the latest value
NewLastValueAggregator(time) ==
  [kind |-> "LAST_VALUE", current |-> 0, lastUpdateTime |-> time]

\* SumAggregator of @opentelemetry/metrics: keeps the running sum
NewSumAggregator(time) ==
  [kind |-> "SUM", current |-> 0, lastUpdateTime |-> time]

\* the aggregator a construction that threw leaves behind: none
Thrown == [kind |-> "thrown"]

\* batcher.ts:81  super.aggregatorFor: sum for the additive kinds, last value otherwise
SuperAggregatorFor(metricDescriptor, time) ==
  IF metricDescriptor.metricKind = "COUNTER" THEN NewSumAggregator(time)
  ELSE NewLastValueAggregator(time)

\* a batcher that tests the metric kind before the boundaries
aggregatorForKindFirst(metricDescriptor, time) ==
  IF metricDescriptor.metricKind = "VALUE_RECORDER" THEN NewLastValueAggregator(time)
  ELSE IF IsArray(metricDescriptor.boundaries) /\ ConstructorAccepts(metricDescriptor.boundaries)
       THEN NewHistogramAggregator(metricDescriptor.boundaries, time)
       ELSE SuperAggregatorFor(metricDescriptor, time)

\* a batcher that accumulates the values of a recorder without boundaries
aggregatorForSummingRecorder(metricDescriptor, time) ==
  IF IsArray(metricDescriptor.boundaries)
  THEN IF ConstructorAccepts(metricDescriptor.boundaries)
       THEN NewHistogramAggregator(metricDescriptor.boundaries, time)
       ELSE Thrown
  ELSE IF metricDescriptor.metricKind = "VALUE_RECORDER" THEN NewSumAggregator(time)
       ELSE SuperAggregatorFor(metricDescriptor, time)

\* batcher.ts:71-83
aggregatorFor(metricDescriptor, time) ==
  IF IsArray(metricDescriptor.boundaries)
  THEN IF ConstructorAccepts(metricDescriptor.boundaries)
       THEN NewHistogramAggregator(metricDescriptor.boundaries, time)
       ELSE Thrown
  ELSE IF metricDescriptor.metricKind = "VALUE_RECORDER" THEN NewLastValueAggregator(time)
       ELSE SuperAggregatorFor(metricDescriptor, time)

\* aggregator.update(value) of whichever aggregator the instrument holds
AggregatorUpdate(a, value, time) ==
  IF a.kind = "HISTOGRAM" THEN HistogramUpdate(a, value, time)
  ELSE IF a.kind = "SUM" THEN [a EXCEPT !.current = @ + value, !.lastUpdateTime = time]
  ELSE [a EXCEPT !.current = value, !.lastUpdateTime = time]

\* ------------------------------------------------- metric descriptor patch
\* `if (this._options.boundaries)`: undefined and null are falsy, every array is truthy
Truthy(v) == v.tag \notin {"undefined", "null"}

\* the descriptor of the unpatched SDK: no boundaries
unpatchedGetMetricDescriptor(metric) ==
  [boundaries |-> Undefined, metricKind |-> metric.kind]

\* patches.ts:3-12; a descriptor without a boundaries property reads undefined
getMetricDescriptor(metric) ==
  IF Truthy(metric.boundaries)
  THEN [boundaries |-> metric.boundaries, metricKind |-> metric.kind]
  ELSE [boundaries |-> Undefined, metricKind |-> metric.kind]

\* ------------------------------------------------------ prometheus exporter
RECURSIVE PrefixSum(_, _)
PrefixSum(counts, i) == IF i = 0 THEN 0 ELSE counts[i] + PrefixSum(counts, i - 1)

\* the serializer's histogram lines: _count, _sum and one cumulative _bucket
\* line per slot, the last one labelled +Inf (le = << >>)
serializeHistogram(value) ==
  [buckets |-> [i \in 1..Len(value.buckets.counts) |->
                  [value |-> PrefixSum(value.buckets.counts, i),
                   le |-> IF i <= Len(value.buckets.boundaries)
                          THEN <<value.buckets.boundaries[i]>> ELSE << >>]],
   sum |-> value.sum,
   count |-> value.count,
   type |-> "histogram"]

\* one record of the checkpoint set, read through aggregator.toPoint()
serializeRecord(a) ==
  IF a.kind = "HISTOGRAM" THEN serializeHistogram(Deref(a, ToPoint(a).value))
  ELSE [value |-> a.current, type |-> IF a.kind = "SUM" THEN "counter" ELSE "gauge"]

\* --------------------------------------------------- SpecAgg: one aggregator
CtorInputs == {Arr(s) : s \in ArrayInputs} \cup {Undefined, Null, Primitive}

Op(op, name, value, input, threw) ==
  [value |-> value, op |-> op, name |-> name, input |-> input, threw |-> threw]

NoOp == Op("init", "", 0, Undefined, FALSE)

\* an observer callback that was not invoked in the cycle: pc is the position
\* of the callback, pending whether the SDK still awaits what invoke returned,
\* values the ObserverResult, produced the observations the callback has made
\* and applied those the SDK has applied to the instrument
NotInvoked ==
  [invoked |-> 0, pending |-> FALSE, pc |-> "none", processed |-> FALSE,
   values |-> << >>, produced |-> << >>, applied |-> << >>]

\* no collect() has been called; registered holds the observer metrics the
\* meter held when collect() was called
NoCycle ==
  [number |-> 0, phase |-> "idle", obs |-> [n \in Names |-> NotInvoked], registered |-> {}]

\* no batch observer: cb is its callback, pc the position of the callback in
\* the latest invocation, calls the observation arrays handed to the observe
\* of the SDK's BatchObserverResult in that invocation, waiting whether the
\* SDK still waits for the invocation, immediate whether the first observe has
\* scheduled the end of the wait, cancelled whether the SDK's timeout has fired
NoBatch ==
  [pc |-> "none", cb |-> Undefined, calls |-> << >>, waiting |-> FALSE,
   immediate |-> FALSE, cancelled |-> FALSE, invocations |-> 0]

\* neither collect() nor exportMetrics() has returned
NotReturned == [sentinel |-> FALSE, metrics |-> << >>]

\* the keys of the labels used; a label set gives each key its value, or ""
\* when it does not hold the key
LabelKeys == {"a", "b"}

LabelSet(a, b) == [k \in LabelKeys |-> IF k = "a" THEN a ELSE b]

\* {}
NoLabels == LabelSet("", "")

LabelValues == {"1", "2"}

LabelSets == {LabelSet(a, b) : a, b \in LabelValues \cup {""}}

\* a telemetry made without labels (telemetry.ts:102) that has created no sum
\* metric: kLabels are the labels of the telemetry (none, or one label set),
\* kind is the kind of the SDK metric, instruments are the bound instruments
\* the SDK metric has made so far, live the positions of those its
\* _instruments map holds, facades the facades of the metric, the first being
\* the one the telemetry registered, meterBatch and exporterBatch the
\* instruments whose records the batcher of the meter and the batcher of the
\* exporter hold; applied is the signed sum of the values applied under
\* each label set since the label set was last cleared or unbound,
\* updatedSets the label sets values were applied under since then and
\* updated the number of update calls
NoLabelled ==
  [kind |-> "none", applied |-> [ls \in LabelSets |-> 0], kLabels |-> << >>,
   instruments |-> << >>, live |-> {}, facades |-> << >>, meterBatch |-> {},
   exporterBatch |-> {}, updatedSets |-> {}, updated |-> 0]

\* names.ts:5-7, makeName(prefix, name): a name is the sequence of the parts
\* that "_" joins, and a prefix that is not given is filtered out
makeName(prefix, name) == prefix \o name

\* the names asked for, and the names they make with the prefixes used
RegNames == {<<"counter">>, <<"http", "counter">>}

Prefixes == {<< >>, <<"http">>}

AllNames == {makeName(prefix, name) : prefix \in Prefixes, name \in RegNames}

\* an empty registry (telemetry.ts:103): kMetrics gives each name the metric
\* registered under it, 0 for none, metrics being numbered as they are made;
\* made is the number of metrics made, factoryCalls the number of times get
\* has invoked a factory for a name, and got the metric that the first get
\* with a factory returned for a name
NoRegistered ==
  [kMetrics |-> [n \in AllNames |-> 0], made |-> 0,
   factoryCalls |-> [n \in RegNames |-> 0], got |-> [n \in RegNames |-> 0]]

\* avvio.ts:27: the default of the autostart option of the constructor
autostartDefault == FALSE

\* a constructor that lets avvio start on its own
autostartAlways == TRUE

\* avvio.ts:27-37: the option handed to avvio
autostart == autostartDefault

\* a telemetry right after construction (telemetry.ts:81, avvio.ts:27-37):
\* plugins are the plugins and options given to use(), in order, started
\* whether avvio has been told to load them, loaded the number of plugins
\* that have finished loading, phase the position of the plugin being
\* loaded, invocations the arguments of every call of each plugin function,
\* booted whether the boot has completed, asked the number of ready() and
\* start() calls and waits the promises they returned
NotBooted ==
  [phase |-> "idle", invocations |-> << >>, plugins |-> << >>, started |-> autostart,
   loaded |-> 0, booted |-> FALSE, asked |-> 0, waits |-> << >>]

\* no boundaries function has been called
NoCall == [fn |-> "none", args |-> << >>, result |-> Return(Undefined)]

\* no stand-alone aggregator, an empty registry (telemetry.ts:103), an empty batcher
Init ==
  /\ agg = NoAggregator
  /\ points = << >>
  /\ updates = 0
  /\ touched = 0
  /\ kMetrics = [n \in Names |-> NoMetric]
  /\ batchMap = {}
  /\ recorded = [n \in Names |-> << >>]
  /\ call = NoCall
  /\ callback = [n \in Names |-> Undefined]
  /\ cycle = NoCycle
  /\ text = NotReturned
  /\ batch = NoBatch
  /\ lbl = NoLabelled
  /\ reg = NoRegistered
  /\ boot = NotBooted
  /\ now = 0
  /\ lastOp = NoOp

\* new LessThenOrEqualHistogramAggregator(input)
Construct(input) ==
  /\ agg = NoAggregator
  /\ IF ConstructorAccepts(input)
     THEN /\ agg' = NewHistogramAggregator(input, hrTime)
          /\ touched' = now
          /\ lastOp' = Op("new", "", 0, input, FALSE)
     ELSE /\ agg' = agg
          /\ touched' = touched
          /\ lastOp' = Op("new", "", 0, input, TRUE)
  /\ UNCHANGED <<points, updates, now, kMetrics, batchMap, recorded, bndVars, lblVars, regVars, bootVars, batVars, obsVars>>

\* aggregator.update(value)
AggUpdate(value) ==
  /\ agg # NoAggregator
  /\ updates < MaxUpdates
  /\ agg' = HistogramUpdate(agg, value, hrTime)
  /\ updates' = updates + 1
  /\ touched' = now
  /\ lastOp' = Op("update", "", value, Undefined, FALSE)
  /\ UNCHANGED <<points, now, kMetrics, batchMap, recorded, bndVars, lblVars, regVars, bootVars, batVars, obsVars>>

\* aggregator.toPoint(); seen records what the caller read through the checkpoint
\* at the time of the call, after records how many updates had been applied
AggToPoint ==
  /\ agg # NoAggregator
  /\ Len(points) < MaxPoints
  /\ LET p == ToPoint(agg)
     IN  points' = Append(points, [point |-> p,
                                   seen |-> Deref(agg, p.value),
                                   after |-> updates])
  /\ lastOp' = Op("toPoint", "", 0, Undefined, FALSE)
  /\ UNCHANGED <<agg, updates, touched, now, kMetrics, batchMap, recorded, bndVars, lblVars, regVars, bootVars, batVars, obsVars>>

\* time passes
AdvanceTime ==
  /\ now < MaxTime
  /\ now' = now + 1
  /\ lastOp' = Op("tick", "", 0, Undefined, FALSE)
  /\ UNCHANGED <<agg, points, updates, touched, kMetrics, batchMap, recorded, bndVars, lblVars, regVars, bootVars, batVars, obsVars>>

NextAgg ==
  \/ \E input \in CtorInputs : Construct(input)
  \/ \E value \in Values : AggUpdate(value)
  \/ AggToPoint
  \/ AdvanceTime

SpecAgg == Init /\ [][NextAgg]_vars

\* ------------------------------------------------------- Spec: the telemetry
OptNums(S) == {<< >>} \cup {<<n>> : n \in S}

\* the count fields tried: absent, negative, zero and MaxCount
CountFields == OptNums({0 - 1, 0, MaxCount})

\* { start?, count, type?: 'linear', width? } with type or width given
LinearConfigs ==
  {Obj(type, start, count, width, << >>) :
     type \in {<< >>, <<"linear">>}, start \in OptNums({0}),
     count \in CountFields, width \in OptNums({0, 1})}
  \ {Obj(<< >>, start, count, << >>, << >>) : start \in OptNums({0}), count \in CountFields}

\* { start, count, factor? }
ExponentialConfigs ==
  {Obj(<< >>, start, count, << >>, factor) :
     start \in OptNums({0}), count \in CountFields, factor \in OptNums({1})}

ConcreteConfigs ==
  {Undefined, Null, Primitive} \cup {Arr(s) : s \in ArrayInputs}
  \cup LinearConfigs \cup ExponentialConfigs

\* the boundaries options handed to createValueRecorder / createValueObserver
Configs ==
  ConcreteConfigs
  \cup {Fn(c) : c \in {Undefined, Null, Arr(<< >>), Arr(<<2, 1>>),
                       Obj(<< >>, <<1>>, <<2>>, << >>, << >>)}}

\* telemetry.ts:148-150
has(name) == kMetrics[name] # NoMetric

\* telemetry.ts:133-142; every name of Names passes the pattern of names.validateName
validateName(name) == IF has(name) THEN Throw("AssertionError") ELSE Return(name)

\* the SDK metric behind a facade: its kind, its _options.boundaries and the
\* bound instrument of the metric's own label set (facades.ts:105-110)
NewMetric(kind, boundaries) ==
  [kind |-> kind, boundaries |-> boundaries, instrument |-> NoAggregator]

\* telemetry.ts:351-364: the name is validated first, then the boundaries are resolved
getValueOptions(name, boundariesConfig) ==
  LET parsedName == validateName(name)
  IN  IF ~parsedName.ok THEN parsedName ELSE create(boundariesConfig)

\* telemetry.ts:220-231 and 238-256: setMetric runs only when getValueOptions returned
CreateValueMetric(op, kind, name, config) ==
  LET options == getValueOptions(name, config)
  IN  /\ IF options.ok
         THEN kMetrics' = [kMetrics EXCEPT ![name] = NewMetric(kind, options.value)]
         ELSE kMetrics' = kMetrics
      /\ lastOp' = Op(op, name, 0, Undefined, ~options.ok)
      /\ UNCHANGED <<agg, points, updates, touched, batchMap, recorded, now, bndVars, lblVars, regVars, bootVars, batVars, obsVars>>

CreateValueRecorder(name, config) ==
  CreateValueMetric("createValueRecorder", "VALUE_RECORDER", name, config)

CreateValueObserver(name, config) ==
  CreateValueMetric("createValueObserver", "VALUE_OBSERVER", name, config)

\* telemetry.ts:175-182
CreateCounter(name) ==
  LET parsedName == validateName(name)
  IN  /\ IF parsedName.ok
         THEN kMetrics' = [kMetrics EXCEPT ![name] = NewMetric("COUNTER", Undefined)]
         ELSE kMetrics' = kMetrics
      /\ lastOp' = Op("createCounter", name, 0, Undefined, ~parsedName.ok)
      /\ UNCHANGED <<agg, points, updates, touched, batchMap, recorded, now, bndVars, lblVars, regVars, bootVars, batVars, obsVars>>

\* the number of update calls recorded for the names of S
RECURSIVE UpdateCalls(_)
UpdateCalls(S) ==
  IF S = {} THEN 0
  ELSE LET n == CHOOSE m \in S : TRUE
       IN  Len(recorded[n]) + UpdateCalls(S \ {n})

\* facades.ts:120: this[kBound] || (this[kBound] = this[kDelegatee].bind(this.getLabels()));
\* the SDK's bind makes the instrument on first use with batcher.aggregatorFor
bind(metric) ==
  IF metric.instrument # NoAggregator THEN metric.instrument
  ELSE aggregatorFor(getMetricDescriptor(metric), hrTime)

\* facades.ts:116-124, metric.update(value) (record, observe, add and inc call it,
\* facades.ts:28-30, 45-51, 128-130).  A counter takes non-negative increments
\* only (telemetry.ts:165).  The constructor's sort is in place, so the
\* metric's own boundaries array is sorted by the first bind (batcher.ts:31).
Update(name, value) ==
  /\ has(name)
  /\ kMetrics[name].kind = "COUNTER" => value >= 0
  /\ UpdateCalls(Names) < MaxUpdates
  /\ LET bound == bind(kMetrics[name])
     IN  IF bound = Thrown
         THEN /\ lastOp' = Op("update", name, 0, Undefined, TRUE)
              /\ UNCHANGED <<kMetrics, recorded>>
         ELSE /\ kMetrics' = [kMetrics EXCEPT
                   ![name].instrument = AggregatorUpdate(bound, value, hrTime),
                   ![name].boundaries =
                       IF bound.kind = "HISTOGRAM" THEN Arr(bound.boundaries) ELSE @]
              /\ recorded' = [recorded EXCEPT ![name] = Append(@, value)]
              /\ lastOp' = Op("update", name, 0, Undefined, FALSE)
  /\ UNCHANGED <<agg, points, updates, touched, batchMap, now, bndVars, lblVars, regVars, bootVars, batVars, obsVars>>

\* a flag answered from the registry of the telemetry instead of the batcher
hasRegisteredMetric == \E n \in Names : has(n)

\* the exporter's batcher: hasMetric and checkPointSet (telemetry.ts:86-87)
hasMetric == batchMap # {}

checkPointSet == [n \in batchMap |-> kMetrics[n].instrument]

NoRegisteredMetrics == [text |-> "# no registered metrics", sentinel |-> TRUE]

\* telemetry.ts:85-88
exportMetrics ==
  IF hasMetric
  THEN [sentinel |-> FALSE,
        metrics |-> [n \in DOMAIN checkPointSet |-> serializeRecord(checkPointSet[n])]]
  ELSE NoRegisteredMetrics

\* telemetry.ts:111-115: the controller hands the record of every bound
\* instrument to the batcher; what collect() returns is exportMetrics afterwards
Collect ==
  /\ batchMap' = batchMap \cup {n \in Names : has(n) /\ kMetrics[n].instrument # NoAggregator}
  /\ lastOp' = Op("collect", "", 0, Undefined, FALSE)
  /\ UNCHANGED <<agg, points, updates, touched, kMetrics, recorded, now, bndVars, lblVars, regVars, bootVars, batVars, obsVars>>

\* the options tried for a name: validateName throws for a registered name
\* before the boundaries option is looked at (telemetry.ts:355), so one option
\* stands for all of them there
ConfigsFor(name) == IF has(name) THEN {Undefined} ELSE Configs

Next ==
  \/ \E name \in Names : \E config \in ConfigsFor(name) : CreateValueRecorder(name, config)
  \/ \E name \in Names : \E config \in ConfigsFor(name) : CreateValueObserver(name, config)
  \/ \E name \in Names : CreateCounter(name)
  \/ \E name \in Names, value \in Values : Update(name, value)
  \/ Collect
  \/ AdvanceTime

Spec == Init /\ [][Next]_vars

\* ------------------------------------------- SpecBnd: the boundaries functions
NotFinite == {<< >>, NaN, PosInfinity}

Starts == NotFinite \cup {<<n>> : n \in (0 - 1)..MaxStart}

GenCounts == NotFinite \cup {<<n>> : n \in (0 - 1)..MaxGenCount}

Widths == OptNums((0 - 1)..MaxStep)

Factors == OptNums(0..MaxStep)

\* the third argument of generate: a callback, or not a function
NextArgs ==
  {Callback("add", <<1>>), Callback("multiply", <<2>>), Callback("addIndex", << >>), Undefined}

\* descriptor objects with every combination of present and absent fields
ObjectConfigs ==
  {Obj(type, start, count, width, factor) :
     type \in {<< >>, <<"linear">>},
     start \in {<< >>, NaN, <<0>>, <<2>>},
     count \in {<< >>, <<0>>, <<MaxGenCount>>},
     width \in OptNums({0, 2}),
     factor \in OptNums({1, 3})}

\* the arguments of getBoundaries: those of the value metrics, the descriptor
\* objects above and producers that return producers
CreateArgs ==
  Configs \cup ObjectConfigs
  \cup {Fn(Fn(c)) : c \in {Undefined, Null, Arr(<<2, 1>>),
                           Obj(<<"linear">>, << >>, <<MaxGenCount>>, << >>, << >>)}}

Called(fn, args, result) ==
  /\ call' = [fn |-> fn, args |-> args, result |-> result]
  /\ lastOp' = Op(fn, "", 0, Undefined, ~result.ok)
  /\ UNCHANGED <<agg, points, updates, touched, kMetrics, batchMap, recorded, now, obsVars, batVars,
                 lblVars, regVars, bootVars>>

\* boundaries.generate(value, count, next)
Generate(value, count, next) ==
  Called("generate", <<value, count, next>>, generate(value, count, next))

\* telemetry.ts:117-119
LinearBoundaries(start, count, width) ==
  Called("linear", <<start, count, width>>, linear(start, count, width))

\* telemetry.ts:121-123
ExponentialBoundaries(start, count, factor) ==
  Called("exponential", <<start, count, factor>>, exponential(start, count, factor))

\* telemetry.ts:125-127
GetBoundaries(config) ==
  Called("create", <<config>>, create(config))

NextBnd ==
  \/ \E value \in Starts, count \in GenCounts, next \in NextArgs : Generate(value, count, next)
  \/ \E start \in Starts, count \in GenCounts, width \in Widths :
       LinearBoundaries(start, count, width)
  \/ \E start \in Starts, count \in GenCounts, factor \in Factors :
       ExponentialBoundaries(start, count, factor)
  \/ \E config \in CreateArgs : GetBoundaries(config)

SpecBnd == Init /\ [][NextBnd]_vars

\* ------------------------------- SpecObs: observer callbacks and collect()
\* A callback of createValueObserver: the values it observes before it
\* returns, whether it is async and suspends once, the values it observes after
\* the suspension, and what it returns (sync) or its promise resolves with
\* (async): << >> for undefined, <<n>> for the number n.
Script(sync, async, late, yields) ==
  [tag |-> "function", sync |-> sync, async |-> async, late |-> late, yields |-> yields]

\* noop of @carv/stdlib, the default callback (telemetry.ts:240)
noop == Script(<< >>, FALSE, << >>, << >>)

Observed == SeqsUpTo(1..MaxObserved, 1)

Scripts ==
  {Script(sync, FALSE, << >>, yields) : sync \in Observed, yields \in OptNums(1..MaxObserved)}
  \cup {Script(sync, TRUE, late, yields) :
          sync \in Observed, late \in Observed, yields \in OptNums(1..MaxObserved)}

\* the boundaries options of the observed metrics: none, or a valid array
ObserverConfigs == {Undefined, Arr(<<MaxObserved>>)}

\* facades.ts:172-175 on the ObserverResult of the SDK: the observation is
\* stored under a labels object made for this call, so none replaces another
observe(values, value) == Append(values, value)

\* the observations of a sequence, in order
RECURSIVE observeAll(_, _)
observeAll(values, seq) ==
  IF seq = << >> THEN values ELSE observeAll(observe(values, Head(seq)), Tail(seq))

\* telemetry.ts:402-406: a number is observed, anything else is dropped
reportValue(value, values) == IF IsFinite(value) THEN observe(values, value[1]) ELSE values

\* an invoke that never hands the callback's promise back to the SDK
invokeWithoutWaiting(cb, values) ==
  [pending |-> FALSE,
   values |-> IF cb.async THEN observeAll(values, cb.sync)
              ELSE reportValue(cb.yields, observeAll(values, cb.sync))]

\* telemetry.ts:378-390: the callback runs up to its return or first await; a
\* promise-like result is handed back wrapped (pending), any other is reported
invoke(cb, values) ==
  [pending |-> cb.async,
   values |-> IF cb.async THEN observeAll(values, cb.sync)
              ELSE reportValue(cb.yields, observeAll(values, cb.sync))]

\* telemetry.ts:238-256 with a callback
CreateValueObserverWithCallback(name, config, cb) ==
  LET options == getValueOptions(name, config)
  IN  /\ IsFunction(cb)
      /\ IF options.ok
         THEN /\ kMetrics' = [kMetrics EXCEPT ![name] = NewMetric("VALUE_OBSERVER", options.value)]
              /\ callback' = [callback EXCEPT ![name] = cb]
         ELSE UNCHANGED <<kMetrics, callback>>
      /\ lastOp' = Op("createValueObserver", name, 0, Undefined, ~options.ok)
      /\ UNCHANGED <<agg, points, updates, touched, batchMap, recorded, now, bndVars, lblVars, regVars, bootVars, batVars, cycle, text>>

\* the observer metrics the meter holds
Observers == {n \in Names : has(n) /\ callback[n] # Undefined}

\* the SDK's observer metric asked for its records: it invokes the callback
\* once with a new ObserverResult (telemetry.ts:250-252) and awaits the result
Invoked(cb) ==
  LET r == invoke(cb, << >>)
  IN  [invoked |-> 1, pending |-> r.pending,
       pc |-> IF cb.async THEN "suspended" ELSE "done",
       processed |-> FALSE,
       values |-> r.values,
       produced |-> IF cb.async THEN cb.sync ELSE reportValue(cb.yields, cb.sync),
       applied |-> << >>]

\* telemetry.ts:111-112, collect() up to its await: the controller asks every
\* metric of the meter for its records
CollectCall ==
  /\ cycle.phase \in {"idle", "returned"}
  /\ cycle.number < MaxCycles
  /\ cycle' = [number |-> cycle.number + 1, phase |-> "awaiting",
               obs |-> [n \in Names |-> IF n \in Observers THEN Invoked(callback[n])
                                        ELSE NotInvoked],
               registered |-> Observers]
  /\ lastOp' = Op("collect", "", 0, Undefined, FALSE)
  /\ UNCHANGED <<agg, points, updates, touched, kMetrics, batchMap, recorded, now, bndVars, lblVars, regVars, bootVars, batVars,
                 callback, text>>

\* the callback resumes after its await, observes and its promise resolves
CallbackResume(name) ==
  /\ cycle.obs[name].pc = "suspended"
  /\ cycle' = [cycle EXCEPT !.obs[name].pc = "resolved",
                            !.obs[name].values = observeAll(@, callback[name].late),
                            !.obs[name].produced = @ \o callback[name].late]
  /\ lastOp' = Op("resume", name, 0, Undefined, FALSE)
  /\ UNCHANGED <<agg, points, updates, touched, kMetrics, batchMap, recorded, now, bndVars, lblVars, regVars, bootVars, batVars,
                 callback, text>>

\* telemetry.ts:392-400: wrapThenable after its await; the promise it returned settles
WrapThenable(name) ==
  /\ cycle.obs[name].pc = "resolved"
  /\ cycle' = [cycle EXCEPT !.obs[name].pc = "done",
                            !.obs[name].pending = FALSE,
                            !.obs[name].values = reportValue(callback[name].yields, @),
                            !.obs[name].produced = reportValue(callback[name].yields, @)]
  /\ lastOp' = Op("wrapThenable", name, 0, Undefined, FALSE)
  /\ UNCHANGED <<agg, points, updates, touched, kMetrics, batchMap, recorded, now, bndVars, lblVars, regVars, bootVars, batVars,
                 callback, text>>

\* the instrument after the values of an ObserverResult were applied in order
RECURSIVE updateAll(_, _, _)
updateAll(a, values, time) ==
  IF values = << >> THEN a
  ELSE updateAll(AggregatorUpdate(a, Head(values), time), Tail(values), time)

\* the SDK's observer metric once the awaited callback has settled: every
\* stored observation is applied to the instrument bound to its labels
ProcessResults(name) ==
  /\ cycle.phase = "awaiting"
  /\ cycle.obs[name].invoked > 0
  /\ ~cycle.obs[name].pending
  /\ ~cycle.obs[name].processed
  /\ bind(kMetrics[name]) # Thrown
  /\ IF cycle.obs[name].values # << >>
     THEN LET bound == bind(kMetrics[name])
          IN  /\ kMetrics' = [kMetrics EXCEPT
                     ![name].instrument = updateAll(bound, cycle.obs[name].values, hrTime),
                     ![name].boundaries =
                         IF bound.kind = "HISTOGRAM" THEN Arr(bound.boundaries) ELSE @]
              /\ recorded' = [recorded EXCEPT ![name] = @ \o cycle.obs[name].values]
     ELSE UNCHANGED <<kMetrics, recorded>>
  /\ cycle' = [cycle EXCEPT !.obs[name].processed = TRUE,
                            !.obs[name].applied = @ \o cycle.obs[name].values,
                            !.obs[name].values = << >>]
  /\ lastOp' = Op("processResults", name, 0, Undefined, FALSE)
  /\ UNCHANGED <<agg, points, updates, touched, batchMap, now, bndVars, lblVars, regVars, bootVars, batVars, callback, text>>

\* every metric has handed over its records: the batcher processes them and
\* the controller exports the checkpoint set to the exporter
Export ==
  /\ cycle.phase = "awaiting"
  /\ \A n \in Names : cycle.obs[n].invoked > 0 => cycle.obs[n].processed
  /\ batchMap' = batchMap \cup {n \in Names : has(n) /\ kMetrics[n].instrument # NoAggregator}
  /\ cycle' = [cycle EXCEPT !.phase = "exported"]
  /\ lastOp' = Op("export", "", 0, Undefined, FALSE)
  /\ UNCHANGED <<agg, points, updates, touched, kMetrics, recorded, now, bndVars, lblVars, regVars, bootVars, batVars, callback, text>>

\* telemetry.ts:114: collect() resumes after its await and returns exportMetrics()
CollectReturn ==
  /\ cycle.phase = "exported"
  /\ text' = exportMetrics
  /\ cycle' = [cycle EXCEPT !.phase = "returned"]
  /\ lastOp' = Op("collectReturn", "", 0, Undefined, FALSE)
  /\ UNCHANGED <<agg, points, updates, touched, kMetrics, batchMap, recorded, now, bndVars, lblVars, regVars, bootVars, batVars,
                 callback>>

\* telemetry.ts:85-88 called by the user
ExportMetrics ==
  /\ text' = exportMetrics
  /\ lastOp' = Op("exportMetrics", "", 0, Undefined, FALSE)
  /\ UNCHANGED <<agg, points, updates, touched, kMetrics, batchMap, recorded, now, bndVars, lblVars, regVars, bootVars, batVars,
                 callback, cycle>>

\* the callbacks and options tried for a name: validateName throws for a
\* registered name whatever they are (telemetry.ts:244 and 355)
ScriptsFor(name) == IF has(name) THEN {noop} ELSE Scripts

ObserverConfigsFor(name) == IF has(name) THEN {Undefined} ELSE ObserverConfigs

NextObs ==
  \/ \E name \in Names : \E config \in ObserverConfigsFor(name), cb \in ScriptsFor(name) :
       CreateValueObserverWithCallback(name, config, cb)
  \/ CollectCall
  \/ \E name \in Names : CallbackResume(name)
  \/ \E name \in Names : WrapThenable(name)
  \/ \E name \in Names : ProcessResults(name)
  \/ Export
  \/ CollectReturn
  \/ ExportMetrics
  \/ \E name \in Names : Update(name, 0)

SpecObs == Init /\ [][NextObs]_vars

\* ------------------------------------------- SpecBatch: the batch observer
\* A callback of createBatchObserver: the arguments of the observer.observe
\* calls it makes itself before it returns, whether it is async, and what it
\* returns (sync) or its promise resolves with (async).
BatchScript(own, async, yields) ==
  [tag |-> "function", async |-> async, yields |-> yields, own |-> own]

\* the observation arrays: empty, or one observation of a value
ObservationArrays == {Arr(<< >>)} \cup {Arr(<<v>>) : v \in 1..MaxObserved}

\* what a callback returns: nothing, a number, or an array of observations
BatchYields == {Undefined, Primitive} \cup ObservationArrays

BatchScripts ==
  {BatchScript(own, async, yields) :
     own \in {<< >>, <<Null>>, <<Arr(<<1>>)>>}, async \in BOOLEAN, yields \in BatchYields}

\* observe of the SDK's BatchObserverResult: the call is noted
resultObserve(calls, observations) == Append(calls, observations)

\* facades.ts:196-207 called as observer.observe(a): only an array reaches the SDK
batchObserve(calls, a) == IF IsArray(a) THEN resultObserve(calls, a) ELSE calls

RECURSIVE batchObserveAll(_, _)
batchObserveAll(calls, own) ==
  IF own = << >> THEN calls ELSE batchObserveAll(batchObserve(calls, Head(own)), Tail(own))

\* a report that hands over nothing unless the callback yielded an array
reportArraysOnly(value, calls) == batchObserve(calls, value)

\* telemetry.ts:408-411
reportObservations(value, calls) ==
  batchObserve(calls, IF IsArray(value) THEN value ELSE Arr(<< >>))

\* telemetry.ts:378-390 with reportObservations as the report
invokeBatch(cb, calls) ==
  IF cb.async THEN batchObserveAll(calls, cb.own)
  ELSE reportObservations(cb.yields, batchObserveAll(calls, cb.own))

\* telemetry.ts:312-333
CreateBatchObserver(name, cb) ==
  LET ok == IsFunction(cb) /\ validateName(name).ok
  IN  /\ IF ok
         THEN /\ kMetrics' = [kMetrics EXCEPT ![name] = NewMetric("BATCH_OBSERVER", Undefined)]
              /\ batch' = [NoBatch EXCEPT !.cb = cb]
         ELSE UNCHANGED <<kMetrics, batch>>
      /\ lastOp' = Op("createBatchObserver", name, 0, Undefined, ~ok)
      /\ UNCHANGED <<agg, points, updates, touched, batchMap, recorded, now, bndVars, lblVars, regVars, bootVars, obsVars>>

\* a continuation of an await is run before any timer, immediate or new call
NoMicrotask == batch.pc # "resolved"

\* a collection cycle of the SDK reaches the batch observer: a new
\* BatchObserverResult, the timeout armed, the callback invoked through invoke
\* (telemetry.ts:326-327)
BatchCollect ==
  /\ batch.cb # Undefined
  /\ ~batch.waiting
  /\ NoMicrotask
  /\ batch.invocations < MaxCycles
  /\ LET calls == invokeBatch(batch.cb, << >>)
     IN  batch' = [batch EXCEPT !.pc = IF batch.cb.async THEN "suspended" ELSE "done",
                                !.calls = calls,
                                !.waiting = TRUE,
                                !.immediate = calls # << >>,
                                !.cancelled = FALSE,
                                !.invocations = @ + 1]
  /\ lastOp' = Op("batchCollect", "", 0, Undefined, FALSE)
  /\ UNCHANGED <<agg, points, updates, touched, kMetrics, batchMap, recorded, now, bndVars, lblVars, regVars, bootVars,
                 obsVars>>

\* the promise of an async callback resolves
BatchResolve ==
  /\ batch.pc = "suspended"
  /\ batch' = [batch EXCEPT !.pc = "resolved"]
  /\ lastOp' = Op("batchResolve", "", 0, Undefined, FALSE)
  /\ UNCHANGED <<agg, points, updates, touched, kMetrics, batchMap, recorded, now, bndVars, lblVars, regVars, bootVars,
                 obsVars>>

\* the promise of an async callback rejects: the await of wrapThenable throws
\* (telemetry.ts:397) and nothing is reported
BatchReject ==
  /\ batch.pc = "suspended"
  /\ batch' = [batch EXCEPT !.pc = "rejected"]
  /\ lastOp' = Op("batchReject", "", 0, Undefined, TRUE)
  /\ UNCHANGED <<agg, points, updates, touched, kMetrics, batchMap, recorded, now, bndVars, lblVars, regVars, bootVars,
                 obsVars>>

\* telemetry.ts:392-400: wrapThenable after its await
BatchWrapThenable ==
  /\ batch.pc = "resolved"
  /\ LET calls == reportObservations(batch.cb.yields, batch.calls)
     IN  batch' = [batch EXCEPT !.pc = "done",
                                !.calls = calls,
                                !.immediate = @ \/ (~batch.cancelled /\ batch.waiting
                                                     /\ calls # << >>)]
  /\ lastOp' = Op("batchWrapThenable", "", 0, Undefined, FALSE)
  /\ UNCHANGED <<agg, points, updates, touched, kMetrics, batchMap, recorded, now, bndVars, lblVars, regVars, bootVars,
                 obsVars>>

\* the immediate scheduled by the first observe: the SDK stops waiting
BatchImmediate ==
  /\ batch.immediate
  /\ batch.waiting
  /\ NoMicrotask
  /\ batch' = [batch EXCEPT !.waiting = FALSE, !.immediate = FALSE]
  /\ lastOp' = Op("batchImmediate", "", 0, Undefined, FALSE)
  /\ UNCHANGED <<agg, points, updates, touched, kMetrics, batchMap, recorded, now, bndVars, lblVars, regVars, bootVars,
                 obsVars>>

\* the timeout of the SDK (maxTimeoutUpdateMS, telemetry.ts:366-376): the
\* result is cancelled and the SDK stops waiting
BatchTimeout ==
  /\ batch.waiting
  /\ NoMicrotask
  /\ batch' = [batch EXCEPT !.waiting = FALSE, !.immediate = FALSE, !.cancelled = TRUE]
  /\ lastOp' = Op("batchTimeout", "", 0, Undefined, FALSE)
  /\ UNCHANGED <<agg, points, updates, touched, kMetrics, batchMap, recorded, now, bndVars, lblVars, regVars, bootVars,
                 obsVars>>

NextBatch ==
  \/ \E name \in Names, cb \in BatchScripts \cup {Undefined} : CreateBatchObserver(name, cb)
  \/ BatchCollect
  \/ BatchResolve
  \/ BatchReject
  \/ BatchWrapThenable
  \/ BatchImmediate
  \/ BatchTimeout

\* the continuation of a resolved await and a scheduled immediate are run by
\* the event loop
SpecBatch ==
  /\ Init
  /\ [][NextBatch]_vars
  /\ WF_vars(BatchWrapThenable)
  /\ WF_vars(BatchImmediate)

\* ------------------------------ SpecLbl: a sum metric and its label sets
\* the facades of the metric: the one the telemetry registered and one bound
\* from it
FacadeIds == {1, 2}

\* { ...x, ...y }: the keys of y override those of x
spread(x, y) == [k \in LabelKeys |-> IF y[k] # "" THEN y[k] ELSE x[k]]

\* an optional labels argument is << >> (undefined) or <<labels>>; spreading
\* undefined adds no key
OrNoLabels(labels) == IF labels = << >> THEN NoLabels ELSE labels[1]

\* telemetry.ts:129-131
getLabels(kLabels, labels) == spread(OrNoLabels(kLabels), OrNoLabels(labels))

\* facades.ts:81-83
metricGetLabels(facade, labels) == spread(facade.kLabels, OrNoLabels(labels))

\* what the caller gave, in the order it was given: the labels of the
\* telemetry, of the metric, of each bind and of the call; the last one to
\* name a key decides its value
RECURSIVE Override(_)
Override(given) ==
  IF given = << >> THEN NoLabels
  ELSE LET rest == Override(SubSeq(given, 1, Len(given) - 1))
           last == OrNoLabels(given[Len(given)])
       IN  [k \in LabelKeys |-> IF last[k] # "" THEN last[k] ELSE rest[k]]

\* facades.ts:75-79 and 107-110
NewFacade(labels, given) == [kLabels |-> labels, given |-> given, kBound |-> 0]

\* the SDK metric's _instruments.get(hashLabels(labels)): the position of the
\* instrument, 0 when the map holds none for the labels
instrumentOf(m, labels) ==
  IF \E i \in m.live : m.instruments[i].labels = labels
  THEN CHOOSE i \in m.live : m.instruments[i].labels = labels
  ELSE 0

\* the SDK metric's bind(labels): the instrument of the map, or a new one
sdkBind(m, labels) ==
  LET i == instrumentOf(m, labels)
      new == Len(m.instruments) + 1
  IN  IF i # 0 THEN [metric |-> m, id |-> i]
      ELSE [metric |-> [m EXCEPT !.instruments = Append(@, [current |-> 0, labels |-> labels]),
                                 !.live = @ \cup {new}],
            id |-> new]

\* the SDK metric's unbind(labels) and clear()
sdkUnbind(m, labels) == [m EXCEPT !.live = {i \in @ : m.instruments[i].labels # labels}]

sdkClear(m) == [m EXCEPT !.live = {}]

\* facades.ts:138-140, bound.add(value): the SDK's BoundCounter ignores a
\* negative value, its BoundUpDownCounter adds any value to the sum aggregator
kUpdate(m, id, value) ==
  IF m.kind = "COUNTER" /\ value < 0 THEN m
  ELSE [m EXCEPT !.instruments[id].current = @ + value]

\* an update that always uses the cached bound instrument
updateIgnoringCallLabels(m, f, value, labels) ==
  IF m.facades[f].kBound # 0 THEN kUpdate(m, m.facades[f].kBound, value)
  ELSE LET b == sdkBind(m, metricGetLabels(m.facades[f], << >>))
       IN  kUpdate([b.metric EXCEPT !.facades[f].kBound = b.id], b.id, value)

\* facades.ts:116-124
update(m, f, value, labels) ==
  IF labels # << >>
  THEN LET b == sdkBind(m, metricGetLabels(m.facades[f], labels))
       IN  kUpdate(b.metric, b.id, value)
  ELSE IF m.facades[f].kBound # 0 THEN kUpdate(m, m.facades[f].kBound, value)
  ELSE LET b == sdkBind(m, metricGetLabels(m.facades[f], << >>))
       IN  kUpdate([b.metric EXCEPT !.facades[f].kBound = b.id], b.id, value)

\* the labels option of the telemetry, the labels option of a metric (which
\* names a key of the telemetry's labels), the labels given to bind and the
\* labels given to a call (none, {}, or a key the other labels name too)
TelemetryLabels == {<<LabelSet("1", "")>>}

MetricLabels == {<< >>, <<LabelSet("2", "")>>}

BindLabels == {<< >>, <<LabelSet("", "1")>>}

CallLabels == {<< >>, <<NoLabels>>, <<LabelSet("1", "")>>}

\* new Telemetry({ labels }) (telemetry.ts:74-103), before any metric is made
NewTelemetry(labels) ==
  /\ lbl = NoLabelled
  /\ labels # << >>
  /\ lbl' = [lbl EXCEPT !.kLabels = labels]
  /\ lastOp' = Op("Telemetry", "", 0, Undefined, FALSE)
  /\ UNCHANGED <<agg, points, updates, touched, kMetrics, batchMap, recorded, now, bndVars,
                 obsVars, batVars, regVars, bootVars>>

\* telemetry.ts:175-182 and 198-209 with options.labels; getOptions
\* (telemetry.ts:340-349) validates the name, which throws once a metric of
\* the name is registered, and merges the labels
CreateSumMetric(op, kind, labels) ==
  LET ok == lbl.kind = "none"
  IN  /\ lbl' = IF ok
                THEN [lbl EXCEPT !.kind = kind,
                                 !.facades = <<NewFacade(getLabels(lbl.kLabels, labels),
                                                         <<lbl.kLabels, labels>>)>>]
                ELSE lbl
      /\ lastOp' = Op(op, "", 0, Undefined, ~ok)
      /\ UNCHANGED <<agg, points, updates, touched, kMetrics, batchMap, recorded, now, bndVars,
                     obsVars, batVars, regVars, bootVars>>

\* facades.ts:85-92
Bind(f, labels) ==
  /\ f \in DOMAIN lbl.facades
  /\ Len(lbl.facades) < Cardinality(FacadeIds)
  /\ lbl' = IF labels # << >>
            THEN [lbl EXCEPT !.facades =
                    Append(@, NewFacade(metricGetLabels(lbl.facades[f], labels),
                                        Append(lbl.facades[f].given, labels)))]
            ELSE lbl
  /\ lastOp' = Op("bind", "", 0, Undefined, FALSE)
  /\ UNCHANGED <<agg, points, updates, touched, kMetrics, batchMap, recorded, now, bndVars,
                 obsVars, batVars, regVars, bootVars>>

\* the methods of a sum metric: update and observe (facades.ts:116-130), add
\* and inc (facades.ts:45-51) and, on an up-down counter, dec (facades.ts:57-60)
SumOps(kind) ==
  {"update", "observe", "add", "inc"} \cup (IF kind = "UP_DOWN_COUNTER" THEN {"dec"} ELSE {})

\* the value argument: add, inc and dec default it to 1; a counter is given
\* non-negative increments only (telemetry.ts:165)
ValueArgs(kind, op) ==
  IF op \in {"update", "observe"} THEN {<<2>>}
  ELSE IF op = "dec" THEN {<< >>, <<0 - 1>>}
  ELSE {<< >>}

ValueOrOne(value) == IF value = << >> THEN 1 ELSE value[1]

\* what the call hands to update: dec negates (facades.ts:58)
Signed(op, value) == IF op = "dec" THEN ValueOrOne(value) * (0 - 1) ELSE ValueOrOne(value)

UpdateLabelled(f, op, value, labels) ==
  /\ f \in DOMAIN lbl.facades
  /\ op \in SumOps(lbl.kind)
  /\ value \in ValueArgs(lbl.kind, op)
  /\ lbl.updated < MaxUpdates
  /\ LET under == Override(Append(lbl.facades[f].given, labels))
     IN  lbl' = [update(lbl, f, Signed(op, value), labels) EXCEPT
                   !.applied[under] = @ + Signed(op, value),
                   !.updatedSets = @ \cup {under},
                   !.updated = @ + 1]
  /\ lastOp' = Op(op, "", 0, Undefined, FALSE)
  /\ UNCHANGED <<agg, points, updates, touched, kMetrics, batchMap, recorded, now, bndVars,
                 obsVars, batVars, regVars, bootVars>>

\* facades.ts:112-114
Unbind(f, labels) ==
  /\ f \in DOMAIN lbl.facades
  /\ LET under == Override(Append(lbl.facades[f].given, labels))
     IN  lbl' = [sdkUnbind(lbl, metricGetLabels(lbl.facades[f], labels)) EXCEPT
                   !.applied[under] = 0,
                   !.updatedSets = @ \ {under}]
  /\ lastOp' = Op("unbind", "", 0, Undefined, FALSE)
  /\ UNCHANGED <<agg, points, updates, touched, kMetrics, batchMap, recorded, now, bndVars,
                 obsVars, batVars, regVars, bootVars>>

\* facades.ts:98-100
Clear(f) ==
  /\ f \in DOMAIN lbl.facades
  /\ lbl' = [sdkClear(lbl) EXCEPT
               !.applied = [ls \in LabelSets |-> 0],
               !.updatedSets = {}]
  /\ lastOp' = Op("clear", "", 0, Undefined, FALSE)
  /\ UNCHANGED <<agg, points, updates, touched, kMetrics, batchMap, recorded, now, bndVars,
                 obsVars, batVars, regVars, bootVars>>

\* a batcher's process(record) for the records of the instruments of from:
\* the record of a label set replaces the one the batch map held for it
processAll(m, batchMapOf, from) ==
  {j \in batchMapOf : ~\E i \in from : m.instruments[i].labels = m.instruments[j].labels}
  \cup from

\* telemetry.ts:111-115: the meter hands the record of every instrument of
\* the metric's map to its batcher, the controller hands the batcher's
\* checkpoint set to the exporter
CollectLabelled ==
  /\ lbl.kind # "none"
  /\ LET checkPoints == processAll(lbl, lbl.meterBatch, lbl.live)
     IN  lbl' = [lbl EXCEPT !.meterBatch = checkPoints,
                            !.exporterBatch = processAll(lbl, @, checkPoints)]
  /\ lastOp' = Op("collect", "", 0, Undefined, FALSE)
  /\ UNCHANGED <<agg, points, updates, touched, kMetrics, batchMap, recorded, now, bndVars,
                 obsVars, batVars, regVars, bootVars>>

\* telemetry.ts:85-88: the value serialized for each label set the exporter's
\* batcher holds a record of, read from the record's aggregator
exportedValues ==
  [ls \in {lbl.instruments[i].labels : i \in lbl.exporterBatch} |->
     lbl.instruments[CHOOSE i \in lbl.exporterBatch : lbl.instruments[i].labels = ls].current]

NextLbl ==
  \/ \E labels \in TelemetryLabels : NewTelemetry(labels)
  \/ \E labels \in MetricLabels : CreateSumMetric("createCounter", "COUNTER", labels)
  \/ \E labels \in MetricLabels :
        CreateSumMetric("createUpDownCounter", "UP_DOWN_COUNTER", labels)
  \/ \E f \in FacadeIds, labels \in BindLabels : Bind(f, labels)
  \/ \E f \in FacadeIds, op \in SumOps("UP_DOWN_COUNTER"), labels \in CallLabels :
        \E value \in ValueArgs("UP_DOWN_COUNTER", op) : UpdateLabelled(f, op, value, labels)
  \/ CollectLabelled

SpecLbl == Init /\ [][NextLbl]_vars

\* ------------------------------ SpecClr: clear and unbind of a sum metric
\* the labels given to unbind: none (the metric's own label set) or a label
\* set of a call
UnbindLabels == {<< >>, <<LabelSet("1", "")>>}

NextClr ==
  \/ \E labels \in MetricLabels : CreateSumMetric("createCounter", "COUNTER", labels)
  \/ \E labels \in MetricLabels :
        CreateSumMetric("createUpDownCounter", "UP_DOWN_COUNTER", labels)
  \/ \E f \in FacadeIds, op \in SumOps("UP_DOWN_COUNTER"), labels \in CallLabels :
        \E value \in ValueArgs("UP_DOWN_COUNTER", op) : UpdateLabelled(f, op, value, labels)
  \/ \E f \in FacadeIds, labels \in UnbindLabels : Unbind(f, labels)
  \/ \E f \in FacadeIds : Clear(f)
  \/ CollectLabelled

SpecClr == Init /\ [][NextClr]_vars

\* --------------------------------------------- SpecReg: the registry, get
MaxFactoryCalls == 3

\* telemetry.ts:148-150
registryHas(r, name) == r.kMetrics[name] # 0

\* telemetry.ts:133-142; every name used passes the pattern of names.validateName
registryValidateName(r, name) ==
  IF registryHas(r, name) THEN Throw("AssertionError") ELSE Return(name)

\* telemetry.ts:336-338: the metric is set under its own name
setMetric(r, name, metric) == [r EXCEPT !.kMetrics[name] = metric]

\* a create* method called with options { prefix, name }: getOptions
\* (telemetry.ts:340-349) makes and validates the name, the SDK makes the
\* metric and setMetric registers the facade (telemetry.ts:175-182)
create_(r, prefix, name) ==
  LET parsed == registryValidateName(r, makeName(prefix, name))
  IN  IF parsed.ok
      THEN [ok |-> TRUE, metric |-> r.made + 1,
            registry |-> setMetric([r EXCEPT !.made = @ + 1], parsed.value, r.made + 1)]
      ELSE [ok |-> FALSE, metric |-> 0, registry |-> r]

\* the create* methods, which share getOptions and setMetric
CreateOps == {"createCounter", "createValueRecorder"}

CreateRegistered(op, prefix, name) ==
  /\ makeName(prefix, name) \in AllNames
  /\ LET made == create_(reg, prefix, name)
     IN  /\ reg' = made.registry
         /\ lastOp' = Op(op, makeName(prefix, name), made.metric, Undefined, ~made.ok)
  /\ UNCHANGED <<agg, points, updates, touched, kMetrics, batchMap, recorded, now, bndVars,
                 obsVars, batVars, lblVars, bootVars>>

\* the factories given to get: none, or (telemetry, name) =>
\* telemetry.createCounter({ name }) as in the test at patches.ts:425-427, or
\* one that uses the prefix option, telemetry.createCounter({ name, prefix })
Factories == {<< >>} \cup {<<prefix>> : prefix \in Prefixes}

\* telemetry.ts:152-160
Get(name, factory) ==
  /\ name \in RegNames
  /\ IF registryHas(reg, name) \/ factory = << >>
     THEN /\ reg' = reg
          /\ lastOp' = Op("get", name, reg.kMetrics[name], Undefined, FALSE)
     ELSE /\ reg.factoryCalls[name] < MaxFactoryCalls
          /\ makeName(factory[1], name) \in AllNames
          /\ LET made == create_(reg, factory[1], name)
                 called == [made.registry EXCEPT !.factoryCalls[name] = @ + 1]
             IN  IF made.ok
                 THEN /\ reg' = [setMetric(called, makeName(factory[1], name), made.metric)
                                   EXCEPT !.got[name] = IF @ = 0 THEN made.metric ELSE @]
                      /\ lastOp' = Op("get", name, made.metric, Undefined, FALSE)
                 ELSE /\ reg' = called
                      /\ lastOp' = Op("get", name, 0, Undefined, TRUE)
  /\ UNCHANGED <<agg, points, updates, touched, kMetrics, batchMap, recorded, now, bndVars,
                 obsVars, batVars, lblVars, bootVars>>

NextReg ==
  \/ \E op \in CreateOps, prefix \in Prefixes, name \in RegNames :
        CreateRegistered(op, prefix, name)
  \/ \E name \in RegNames, factory \in Factories : Get(name, factory)

SpecReg == Init /\ [][NextReg]_vars

\* ------------------------------------------------ SpecBoot: the plugins
MaxPlugins == 2

MaxWaits == 1

\* a plugin function: async when it returns a promise instead of calling done
PluginFn(async) == [tag |-> "function", async |-> async]

\* { default: plugin }
DefaultOf(plugin) == [tag |-> "object", default |-> plugin]

\* a promise of a plugin or of { default: plugin }
PromiseOf(v) == [tag |-> "promise", resolves |-> v]

\* the options given with a plugin: an object
Options == [tag |-> "object", id |-> "options"]

\* what use() is given: a plugin in one of the forms it takes (avvio.ts:9-12)
\* with options, as in the tests at patches.ts:442-536, or without
Used(plugin, options) == [options |-> options, plugin |-> plugin]

Uses ==
  {Used(PluginFn(FALSE), Options), Used(PluginFn(TRUE), Undefined),
   Used(DefaultOf(PluginFn(FALSE)), Options), Used(PromiseOf(PluginFn(FALSE)), Options),
   Used(PromiseOf(DefaultOf(PluginFn(FALSE))), Options)}

\* avvio takes the default export of what it was given
unwrapDefault(v) == IF v.tag = "object" THEN v.default ELSE v

\* avvio.ts:55-57: use(plugin, options) adds the plugin to the queue; after
\* the boot has completed avvio refuses it
Use(plugin, options) ==
  /\ Len(boot.plugins) < MaxPlugins
  /\ IF boot.booted
     THEN /\ boot' = boot
          /\ lastOp' = Op("use", "", 0, Undefined, TRUE)
     ELSE /\ boot' = [boot EXCEPT
                 !.plugins = Append(@, Used(plugin, options)),
                 !.invocations = Append(@, << >>)]
          /\ lastOp' = Op("use", "", 0, Undefined, FALSE)
  /\ UNCHANGED <<agg, points, updates, touched, kMetrics, batchMap, recorded, now, bndVars,
                 obsVars, batVars, lblVars, regVars>>

\* the promise of ready() or start(): the plugins registered when it was made
Wait(kind) ==
  [kind |-> kind, resolved |-> FALSE, upto |-> Len(boot.plugins)]

\* avvio.ts:71-73: ready() is avvio's after(), which resumes the queue and
\* returns a promise of the plugins registered so far
Ready ==
  /\ Len(boot.waits) < MaxWaits
  /\ boot' = [boot EXCEPT !.started = TRUE, !.asked = @ + 1,
                          !.waits = Append(@, Wait("ready"))]
  /\ lastOp' = Op("ready", "", 0, Undefined, FALSE)
  /\ UNCHANGED <<agg, points, updates, touched, kMetrics, batchMap, recorded, now, bndVars,
                 obsVars, batVars, lblVars, regVars>>

\* avvio.ts:84-86: start() is avvio's ready(), which starts the boot and
\* returns a promise of its completion
Start ==
  /\ Len(boot.waits) < MaxWaits
  /\ boot' = [boot EXCEPT !.started = TRUE, !.asked = @ + 1,
                          !.waits = Append(@, Wait("start"))]
  /\ lastOp' = Op("start", "", 0, Undefined, FALSE)
  /\ UNCHANGED <<agg, points, updates, touched, kMetrics, batchMap, recorded, now, bndVars,
                 obsVars, batVars, lblVars, regVars>>

\* the call avvio makes: plugin(instance, options, done)
invokePlugin(b, i, fn) ==
  IF IsFunction(fn)
  THEN [b EXCEPT !.phase = "running",
                 !.invocations[i] = Append(@, <<"telemetry", b.plugins[i].options>>)]
  ELSE [b EXCEPT !.phase = "failed"]

\* avvio loads the next plugin of the queue: a promise is awaited first, a
\* function (or the default of an object) is invoked
Load ==
  /\ boot.started
  /\ boot.phase = "idle"
  /\ boot.loaded < Len(boot.plugins)
  /\ LET given == boot.plugins[boot.loaded + 1].plugin
     IN  boot' = IF given.tag = "promise"
                 THEN [boot EXCEPT !.phase = "unwrapping"]
                 ELSE invokePlugin(boot, boot.loaded + 1, unwrapDefault(given))
  /\ lastOp' = Op("load", "", 0, Undefined, FALSE)
  /\ UNCHANGED <<agg, points, updates, touched, kMetrics, batchMap, recorded, now, bndVars,
                 obsVars, batVars, lblVars, regVars>>

\* the promise given to use() has resolved: what it resolved with, or its
\* default, is invoked
Unwrap ==
  /\ boot.phase = "unwrapping"
  /\ boot' = invokePlugin(boot, boot.loaded + 1,
                          unwrapDefault(boot.plugins[boot.loaded + 1].plugin.resolves))
  /\ lastOp' = Op("unwrap", "", 0, Undefined, FALSE)
  /\ UNCHANGED <<agg, points, updates, touched, kMetrics, batchMap, recorded, now, bndVars,
                 obsVars, batVars, lblVars, regVars>>

\* the plugin has called done, or the promise it returned has resolved
Done ==
  /\ boot.phase = "running"
  /\ boot' = [boot EXCEPT !.phase = "idle", !.loaded = @ + 1]
  /\ lastOp' = Op("done", "", 0, Undefined, FALSE)
  /\ UNCHANGED <<agg, points, updates, touched, kMetrics, batchMap, recorded, now, bndVars,
                 obsVars, batVars, lblVars, regVars>>

\* the queue is empty: the boot has completed
Booted ==
  /\ boot.started
  /\ ~boot.booted
  /\ boot.phase = "idle"
  /\ boot.loaded = Len(boot.plugins)
  /\ boot' = [boot EXCEPT !.booted = TRUE]
  /\ lastOp' = Op("booted", "", 0, Undefined, FALSE)
  /\ UNCHANGED <<agg, points, updates, touched, kMetrics, batchMap, recorded, now, bndVars,
                 obsVars, batVars, lblVars, regVars>>

\* a promise of ready() resolves when the plugins registered before it have
\* loaded, a promise of start() when the boot has completed
Resolve(w) ==
  /\ w \in DOMAIN boot.waits
  /\ ~boot.waits[w].resolved
  /\ IF boot.waits[w].kind = "ready" THEN boot.loaded >= boot.waits[w].upto ELSE boot.booted
  /\ boot' = [boot EXCEPT !.waits[w].resolved = TRUE]
  /\ lastOp' = Op("resolve", "", 0, Undefined, FALSE)
  /\ UNCHANGED <<agg, points, updates, touched, kMetrics, batchMap, recorded, now, bndVars,
                 obsVars, batVars, lblVars, regVars>>

NextBoot ==
  \/ \E used \in Uses : Use(used.plugin, used.options)
  \/ Ready
  \/ Start
  \/ Load
  \/ Unwrap
  \/ Done
  \/ Booted
  \/ \E w \in 1..MaxWaits : Resolve(w)

SpecBoot == Init /\ [][NextBoot]_vars

\* ------------------------------------------------ claims on one aggregator
IsAscending(s) == \A i \in 1..(Len(s) - 1) : s[i] <= s[i + 1]

Occurrences(s, x) == Cardinality({i \in 1..Len(s) : s[i] = x})

IsPermutation(s, t) ==
  /\ Len(s) = Len(t)
  /\ \A i \in 1..Len(s) : Occurrences(s, s[i]) = Occurrences(t, s[i])

\* the bucket the specification assigns to a value: the smallest index whose
\* boundary is >= the value, else the overflow index
ExpectedBucket(boundaries, value) ==
  LET fits == {i \in 1..Len(boundaries) : value <= boundaries[i]}
  IN  IF fits = {} THEN Len(boundaries) + 1
      ELSE CHOOSE i \in fits : \A j \in fits : i <= j

Counts(a) == a.current.buckets.counts

\* C1: update(v) adds exactly 1 to the bucket at the smallest index i with
\* v <= b[i] (a value equal to a boundary lands in that boundary's bucket), or
\* to the overflow bucket when v exceeds every boundary, leaves every other
\* bucket alone, and no step ever lowers a bucket count.
C1_UpdateIncrementsFirstFittingBucket ==
  [][/\ lastOp'.op = "update" =>
          LET k == ExpectedBucket(agg.boundaries, lastOp'.value)
          IN  /\ DOMAIN Counts(agg') = DOMAIN Counts(agg)
              /\ \A i \in DOMAIN Counts(agg) :
                    Counts(agg')[i] = Counts(agg)[i] + (IF i = k THEN 1 ELSE 0)
     /\ (agg # NoAggregator /\ agg' # NoAggregator) =>
          \A i \in DOMAIN Counts(agg) : Counts(agg')[i] >= Counts(agg)[i]
    ]_vars

\* a value equal to a boundary that is not the first one has just been counted
\* in that boundary's bucket, and an earlier update went to the overflow bucket
C1_Witness ==
  /\ agg # NoAggregator
  /\ lastOp.op = "update"
  /\ Len(agg.boundaries) = 2
  /\ agg.boundaries[1] < agg.boundaries[2]
  /\ lastOp.value = agg.boundaries[2]
  /\ Counts(agg)[2] = 1
  /\ Counts(agg)[3] = 1

\* C2: after any N updates of a fresh aggregator, counts has one slot per
\* boundary plus one, count is N and the bucket counts add up to N.
C2_CountsAddUpToUpdates ==
  agg # NoAggregator =>
    /\ Len(Counts(agg)) = Len(agg.boundaries) + 1
    /\ agg.current.count = updates
    /\ SumSeq(Counts(agg)) = updates

\* two updates fell into different buckets, one of them the overflow bucket
C2_Witness ==
  /\ agg # NoAggregator
  /\ updates = 2
  /\ Counts(agg)[Len(agg.boundaries) + 1] = 1
  /\ Counts(agg)[1] = 1

\* C4: toPoint() changes nothing in the aggregator, its timestamp is that of
\* the most recent update, and two calls with no update between them return
\* equal values and the same timestamp.
C4_ToPointIsPureRead ==
  [][/\ lastOp'.op = "toPoint" =>
          /\ agg' = agg
          /\ points'[Len(points')].point.timestamp = touched
          /\ points'[Len(points')].seen = agg.current
     /\ \A i, j \in DOMAIN points' :
          points'[i].after = points'[j].after =>
             /\ points'[i].seen = points'[j].seen
             /\ points'[i].point.timestamp = points'[j].point.timestamp
    ]_vars

\* toPoint() was called twice after an update, the clock having moved on
\* between the update and the second call
C4_Witness ==
  /\ Len(points) = 2
  /\ points[1].after = 1
  /\ points[2].after = 1
  /\ lastOp.op = "toPoint"
  /\ now > touched

\* C7: updates applied after toPoint() do not change what is read through the
\* checkpoint it returned.
C7_CheckpointIsImmutable ==
  agg # NoAggregator =>
    \A i \in DOMAIN points : Deref(agg, points[i].point.value) = points[i].seen

\* C8: construction with an empty or non-array input fails and yields no
\* aggregator; otherwise the boundaries are the input values sorted ascending,
\* so every aggregator scans ascending boundaries.
C8_ConstructorSortsOrFails ==
  /\ lastOp.op = "new" =>
       /\ lastOp.threw <=> (lastOp.input.tag # "array" \/ lastOp.input = Arr(<< >>))
       /\ lastOp.threw => agg = NoAggregator
       /\ ~lastOp.threw =>
            /\ agg # NoAggregator
            /\ IsAscending(agg.boundaries)
            /\ IsPermutation(agg.boundaries, lastOp.input.items)
  /\ agg # NoAggregator => IsAscending(agg.boundaries)

\* an aggregator was constructed from an array given in descending order
C8_Witness ==
  /\ lastOp.op = "new"
  /\ ~lastOp.threw
  /\ ~IsAscending(lastOp.input.items)
  /\ agg # NoAggregator

\* ------------------------------------------------- claims on the telemetry
IsStrictlyAscending(s) == \A i \in 1..(Len(s) - 1) : s[i] < s[i + 1]

ValueKinds == {"VALUE_RECORDER", "VALUE_OBSERVER"}

Bound(n) == has(n) /\ kMetrics[n].instrument # NoAggregator

\* C3: for a value recorder or value observer created with boundaries B, the
\* exported histogram has count = number of recorded values, sum = their sum,
\* for each b in B a cumulative bucket le=b holding the number of recorded
\* values <= b, and a le=+Inf bucket equal to count.
C3_ExportedHistogramIsCumulative ==
  \A n \in batchMap :
    (kMetrics[n].kind \in ValueKinds /\ IsArray(kMetrics[n].boundaries)) =>
      LET e == exportMetrics.metrics[n]
          B == kMetrics[n].boundaries.items
          r == recorded[n]
      IN  /\ e.type = "histogram"
          /\ e.count = Len(r)
          /\ e.sum = SumSeq(r)
          /\ Len(e.buckets) = Len(B) + 1
          /\ \A i \in 1..Len(B) : \E k \in 1..Len(B) : e.buckets[k].le = <<B[i]>>
          /\ \A k \in 1..Len(B) :
                e.buckets[k].value =
                  Cardinality({j \in 1..Len(r) : r[j] <= e.buckets[k].le[1]})
          /\ e.buckets[Len(B) + 1].le = << >>
          /\ e.buckets[Len(B) + 1].value = e.count

\* collect() has just exported a histogram with two distinct boundaries after
\* two records, one equal to the lower boundary and one above both
C3_Witness ==
  /\ lastOp.op = "collect"
  /\ \E n \in batchMap :
       /\ kMetrics[n].kind \in ValueKinds
       /\ IsArray(kMetrics[n].boundaries)
       /\ Len(kMetrics[n].boundaries.items) = 2
       /\ Len(recorded[n]) = 2
       /\ \E j \in 1..2 : recorded[n][j] = kMetrics[n].boundaries.items[1]
       /\ exportMetrics.metrics[n].buckets[1].value = 1
       /\ exportMetrics.metrics[n].buckets[2].value = 1
       /\ exportMetrics.metrics[n].buckets[3].value = 2

\* C5: an instrument's aggregator is the histogram aggregator when the
\* metric's boundaries are an array, whatever the kind; else the last-value
\* aggregator for a value recorder; else the SDK's default for the kind.  The
\* descriptor carries boundaries exactly when the metric has a boundaries option.
C5_AggregatorChosenFromDescriptor ==
  \A n \in Names :
    has(n) =>
      LET m == kMetrics[n]
      IN  /\ (getMetricDescriptor(m).boundaries # Undefined) <=> (m.boundaries # Undefined)
          /\ m.boundaries # Undefined => getMetricDescriptor(m).boundaries = m.boundaries
          /\ Bound(n) =>
               m.instrument.kind =
                 IF IsArray(m.boundaries) THEN "HISTOGRAM"
                 ELSE IF m.kind = "VALUE_RECORDER" THEN "LAST_VALUE"
                 ELSE IF m.kind = "COUNTER" THEN "SUM"
                 ELSE "LAST_VALUE"

\* a value recorder with boundaries holds a histogram aggregator
C5_Witness ==
  \E n \in Names :
    /\ Bound(n)
    /\ kMetrics[n].kind = "VALUE_RECORDER"
    /\ IsArray(kMetrics[n].boundaries)
    /\ kMetrics[n].instrument.kind = "HISTOGRAM"

\* C6: a value recorder created without boundaries exports, after any
\* non-empty sequence of record/observe/update calls, the most recent value.
C6_RecorderWithoutBoundariesExportsLastValue ==
  \A n \in batchMap :
    (kMetrics[n].kind = "VALUE_RECORDER" /\ kMetrics[n].boundaries = Undefined
       /\ recorded[n] # << >>) =>
      /\ exportMetrics.metrics[n].type = "gauge"
      /\ exportMetrics.metrics[n].value = recorded[n][Len(recorded[n])]

\* two values were recorded and the last one differs from their sum
C6_Witness ==
  \E n \in batchMap :
    /\ kMetrics[n].kind = "VALUE_RECORDER"
    /\ kMetrics[n].boundaries = Undefined
    /\ Len(recorded[n]) = 2
    /\ SumSeq(recorded[n]) # recorded[n][2]
    /\ lastOp.op = "collect"

\* C9 as stated: the boundaries of every histogram aggregator are non-empty
\* and strictly ascending, without duplicates.
C9_BoundariesStrictlyAscending ==
  \A n \in Names :
    (Bound(n) /\ kMetrics[n].instrument.kind = "HISTOGRAM") =>
      /\ Len(kMetrics[n].instrument.boundaries) > 0
      /\ IsStrictlyAscending(kMetrics[n].instrument.boundaries)

\* C9 as amended: the boundaries of every histogram aggregator are non-empty
\* and ascending; equal neighbours (duplicates of the input) are kept.
C9_BoundariesAscending ==
  \A n \in Names :
    (Bound(n) /\ kMetrics[n].instrument.kind = "HISTOGRAM") =>
      /\ Len(kMetrics[n].instrument.boundaries) > 0
      /\ IsAscending(kMetrics[n].instrument.boundaries)
      /\ kMetrics[n].instrument.current.buckets.boundaries
           = kMetrics[n].instrument.boundaries

\* an aggregator holds boundaries that only a generated linear configuration yields
C9_Witness ==
  \E n \in Names :
    /\ Bound(n)
    /\ kMetrics[n].instrument.kind = "HISTOGRAM"
    /\ kMetrics[n].instrument.boundaries = <<0, 1>>

\* the configuration behind any chain of producers
RECURSIVE Resolved(_)
Resolved(c) == IF c.tag = "function" THEN Resolved(c.returns) ELSE c

IsLinear(c) == c.type = <<"linear">> \/ c.width # << >>

\* the invalid boundaries options of spec section 7: an unrecognised shape,
\* malformed generation parameters, an empty boundary sequence
InvalidConfig(c) ==
  LET r == Resolved(c)
  IN  \/ r.tag \notin {"undefined", "array", "object"}
      \/ r = Arr(<< >>)
      \/ /\ r.tag = "object"
         /\ \/ r.count = << >>
            \/ r.count[1] <= 0
            \/ IsLinear(r) /\ r.width # << >> /\ r.width[1] <= 0
            \/ ~IsLinear(r) /\ r.start # << >> /\ r.start[1] <= 0
            \/ ~IsLinear(r) /\ r.factor # << >> /\ r.factor[1] <= 1

\* C10: creating a value metric with an invalid boundaries option throws and
\* leaves the registry as it was, and update on a created metric never throws.
C10_ConfigurationErrorsAbortCreation ==
  [][/\ \A n \in Names, c \in Configs :
          (InvalidConfig(c) /\ (CreateValueRecorder(n, c) \/ CreateValueObserver(n, c)))
            => (lastOp'.threw /\ kMetrics' = kMetrics)
     /\ lastOp'.op = "update" => ~lastOp'.threw
    ]_vars

\* ------------------------------------------ claims on the boundaries functions
Arg(i) == call.args[i]

Generated == call.result.value.items

RECURSIVE Power(_, _)
Power(b, e) == IF e = 0 THEN 1 ELSE b * Power(b, e - 1)

\* a count that is a positive finite integer
IsPositiveCount(count) == IsFinite(count) /\ count[1] >= 1

\* C11: generate, linear and exponential throw, and return no sequence, for a
\* start that is not finite, for a count that is not a positive finite integer
\* (0 and negative counts included), for a linear width <= 0 and for an
\* exponential start <= 0 or factor <= 1.
C11_MalformedParametersRejected ==
  /\ call.fn \in {"generate", "linear", "exponential"} =>
       ((~IsFinite(Arg(1)) \/ ~IsPositiveCount(Arg(2))) => ~call.result.ok)
  /\ call.fn = "linear" =>
       ((Arg(3) # << >> /\ Arg(3)[1] <= 0) => ~call.result.ok)
  /\ call.fn = "exponential" =>
       (((IsFinite(Arg(1)) /\ Arg(1)[1] <= 0) \/ (Arg(3) # << >> /\ Arg(3)[1] <= 1))
          => ~call.result.ok)

\* C12: for a finite start, a positive count and a callback next, generate
\* returns count elements, the first is start and each later one is next
\* applied to its predecessor and the predecessor's index.
C12_GenerateIteratesNext ==
  (call.fn = "generate" /\ IsFinite(Arg(1)) /\ IsPositiveCount(Arg(2)) /\ IsFunction(Arg(3))) =>
    /\ call.result.ok
    /\ IsArray(call.result.value)
    /\ Len(Generated) = Arg(2)[1]
    /\ Generated[1] = Arg(1)[1]
    /\ \A i \in 1..(Arg(2)[1] - 1) :
          Generated[i + 1] = applyNext(Arg(3), Generated[i], i - 1)

\* generate was called with a callback that reads the index and a count of 3
C12_Witness ==
  /\ call.fn = "generate"
  /\ call.args = <<(<<1>>), (<<3>>), Callback("addIndex", << >>)>>
  /\ call.result = Return(Arr(<<1, 1, 2>>))

\* the width linear works with: the start when the argument is omitted
WidthOf(start, widthArg) == IF widthArg = << >> THEN start ELSE widthArg

\* C13: for a count >= 1 and a width > 0, linear(start, count, width) returns
\* the count values start + i * width, i = 0..count-1, the width being the
\* start when omitted; linear(2, 3) = [2, 4, 6], linear(2, 5, 3) = [2, 5, 8, 11, 14].
C13_LinearAddsWidth ==
  call.fn = "linear" =>
    /\ (/\ IsFinite(Arg(1)) /\ IsPositiveCount(Arg(2))
        /\ IsFinite(WidthOf(Arg(1), Arg(3))) /\ WidthOf(Arg(1), Arg(3))[1] > 0) =>
          /\ call.result.ok
          /\ Len(Generated) = Arg(2)[1]
          /\ \A i \in 1..Arg(2)[1] :
                Generated[i] = Arg(1)[1] + (i - 1) * WidthOf(Arg(1), Arg(3))[1]
    /\ call.args = <<(<<2>>), (<<3>>), (<< >>)>> => call.result = Return(Arr(<<2, 4, 6>>))
    /\ call.args = <<(<<2>>), (<<5>>), (<<3>>)>> => call.result = Return(Arr(<<2, 5, 8, 11, 14>>))

\* linear(2, 5, 3) has returned
C13_Witness ==
  /\ call.fn = "linear"
  /\ call.args = <<(<<2>>), (<<5>>), (<<3>>)>>
  /\ call.result.ok
  /\ Len(Generated) = 5

\* the factor exponential works with: 2 when the argument is omitted
FactorOf(factorArg) == IF factorArg = << >> THEN 2 ELSE factorArg[1]

\* C14: for a count >= 1, a start > 0 and a factor > 1, exponential(start,
\* count, factor) returns the count values start * factor^i, i = 0..count-1,
\* the factor being 2 when omitted; exponential(2, 3) = [2, 4, 8],
\* exponential(2, 5, 3) = [2, 6, 18, 54, 162].
C14_ExponentialMultipliesByFactor ==
  call.fn = "exponential" =>
    /\ (/\ IsFinite(Arg(1)) /\ Arg(1)[1] > 0 /\ IsPositiveCount(Arg(2))
        /\ FactorOf(Arg(3)) > 1) =>
          /\ call.result.ok
          /\ Len(Generated) = Arg(2)[1]
          /\ \A i \in 1..Arg(2)[1] :
                Generated[i] = Arg(1)[1] * Power(FactorOf(Arg(3)), i - 1)
    /\ call.args = <<(<<2>>), (<<3>>), (<< >>)>> => call.result = Return(Arr(<<2, 4, 8>>))
    /\ call.args = <<(<<2>>), (<<5>>), (<<3>>)>> => call.result = Return(Arr(<<2, 6, 18, 54, 162>>))

\* exponential(2, 5, 3) has returned
C14_Witness ==
  /\ call.fn = "exponential"
  /\ call.args = <<(<<2>>), (<<5>>), (<<3>>)>>
  /\ call.result.ok
  /\ Len(Generated) = 5

\* C15: create(undefined) is undefined, create(array) is that array as it was
\* given, and create(f) for a producer f is create(f()): the result of the
\* concrete configuration at the end of the chain of producers.
C15_CreateResolvesProducers ==
  call.fn = "create" =>
    /\ Arg(1) = Undefined => call.result = Return(Undefined)
    /\ IsArray(Arg(1)) => call.result = Return(Arg(1))
    /\ IsFunction(Arg(1)) =>
         /\ call.result = create(Arg(1).returns)
         /\ ~IsFunction(Resolved(Arg(1)))
         /\ Resolved(Arg(1)) = Undefined => call.result = Return(Undefined)
         /\ IsArray(Resolved(Arg(1))) => call.result = Return(Resolved(Arg(1)))

\* create was given a producer of a producer of an unsorted array and returned the array
C15_Witness ==
  /\ call.fn = "create"
  /\ Arg(1) = Fn(Fn(Arr(<<2, 1>>)))
  /\ call.result = Return(Arr(<<2, 1>>))

\* C16: for a descriptor object create returns linear boundaries exactly when
\* type is 'linear' or width is defined, the width defaulting to 1 and the
\* start to the width, and exponential boundaries otherwise, the start
\* defaulting to 1 and the factor to 2; create({count: 5, type: 'linear'}) =
\* [1, 2, 3, 4, 5] and create({count: 5}) = [1, 2, 4, 8, 16].
C16_ObjectSelectsLinearOrExponential ==
  (call.fn = "create" /\ Arg(1).tag = "object") =>
    LET c == Arg(1)
        asLinear == c.type = <<"linear">> \/ c.width # << >>
        width == IF c.width = << >> THEN 1 ELSE c.width[1]
        start == IF c.start # << >> THEN c.start
                 ELSE IF asLinear THEN <<width>> ELSE <<1>>
        step == IF asLinear THEN width ELSE FactorOf(c.factor)
        valid == /\ IsFinite(start) /\ IsPositiveCount(c.count)
                 /\ IF asLinear THEN width > 0 ELSE start[1] > 0 /\ step > 1
    IN  /\ valid =>
              /\ call.result.ok
              /\ Len(Generated) = c.count[1]
              /\ \A i \in 1..c.count[1] :
                    Generated[i] = IF asLinear THEN start[1] + (i - 1) * step
                                   ELSE start[1] * Power(step, i - 1)
        /\ call.result = IF asLinear THEN linear(start, c.count, <<width>>)
                         ELSE exponential(start, c.count, c.factor)
        /\ c = Obj(<<"linear">>, << >>, <<5>>, << >>, << >>)
              => call.result = Return(Arr(<<1, 2, 3, 4, 5>>))
        /\ c = Obj(<< >>, << >>, <<5>>, << >>, << >>)
              => call.result = Return(Arr(<<1, 2, 4, 8, 16>>))

\* create was given { count, width: 2 } without a type and returned the
\* multiples of 2
C16_Witness ==
  /\ call.fn = "create"
  /\ Arg(1) = Obj(<< >>, << >>, <<MaxGenCount>>, <<2>>, << >>)
  /\ call.result.ok
  /\ Generated[1] = 2
  /\ Generated[2] = 4
  /\ Generated[3] = 6

\* C17: create throws its invalid-configuration error (the TypeError
\* 'Invalid bucket config'), and returns nothing, for every configuration
\* that is not undefined, an array, a function or an object; create(null) throws.
C17_UnrecognisedConfigurationThrows ==
  call.fn = "create" =>
    /\ Arg(1).tag \notin {"undefined", "array", "function", "object"} =>
         call.result = Throw("TypeError")
    /\ Arg(1) = Null => ~call.result.ok

\* create(null) has thrown
C17_Witness ==
  /\ call.fn = "create"
  /\ Arg(1) = Null
  /\ ~call.result.ok
  /\ lastOp.threw

\* ----------------------------------- claims on observers and the export
\* s occurs in t as a block of consecutive elements
IsBlockOf(s, t) ==
  \E k \in 0..(Len(t) - Len(s)) : \A i \in 1..Len(s) : t[k + i] = s[i]

\* C18: when a collect() has returned, the callback of every observer that was
\* registered when it was called has been invoked exactly once in that cycle
\* and has run to its end, and every observation it made in the cycle (before
\* returning, after its suspension, or as its numeric result) has been applied
\* to the instrument; the text collect() returns is the export of instruments
\* that hold them.
C18_ObservationsAppliedBeforeExport ==
  /\ cycle.phase = "returned" =>
       \A n \in Names :
         /\ cycle.obs[n].invoked = IF n \in cycle.registered THEN 1 ELSE 0
         /\ cycle.obs[n].pc \in {"none", "done"}
         /\ cycle.obs[n].applied = cycle.obs[n].produced
         /\ cycle.obs[n].values = << >>
         /\ IsBlockOf(cycle.obs[n].produced, recorded[n])
  /\ lastOp.op = "collectReturn" =>
       \A n \in Names :
         cycle.obs[n].produced # << >> =>
           /\ ~text.sentinel
           /\ n \in DOMAIN text.metrics
           /\ IF text.metrics[n].type = "histogram"
              THEN /\ text.metrics[n].count = Len(recorded[n])
                   /\ text.metrics[n].sum = SumSeq(recorded[n])
              ELSE text.metrics[n].value = recorded[n][Len(recorded[n])]

\* the second collect() has returned the value an async callback resolved
\* with, after the callback observed once before and once after its await
C18_Witness ==
  /\ lastOp.op = "collectReturn"
  /\ cycle.number = 2
  /\ ~text.sentinel
  /\ \E n \in cycle.registered :
       /\ callback[n].async
       /\ cycle.obs[n].produced = <<1, 2, 1>>
       /\ text.metrics[n].type = "gauge"
       /\ text.metrics[n].value = 1

ExpectedReport(yields) == IF IsArray(yields) THEN yields ELSE Arr(<< >>)

\* the callback of the latest invocation has returned or its promise has resolved
BatchYielded == batch.pc \in {"resolved", "done"}

\* the observe of the SDK's result has been called in the latest invocation,
\* the last time with what the callback yielded
BatchReported ==
  /\ batch.pc = "done"
  /\ Len(batch.calls) >= 1
  /\ batch.calls[Len(batch.calls)] = ExpectedReport(batch.cb.yields)

\* C19: whenever an invoked batch observer callback has returned, or its
\* promise has resolved, the observe of the SDK's BatchObserverResult gets
\* called at least once in that invocation, with the array the callback
\* yielded or else with an empty array, and the SDK stops waiting for it.
C19_BatchObserveCalledAtLeastOnce ==
  /\ BatchYielded ~> BatchReported
  /\ (BatchYielded /\ batch.waiting) ~> ~batch.waiting

\* an async callback that observed nothing itself resolved with a number and
\* the empty array was handed to the SDK, which has stopped waiting
C19_Witness ==
  /\ batch.cb # Undefined
  /\ batch.cb.async
  /\ batch.cb.own = << >>
  /\ batch.cb.yields = Primitive
  /\ batch.pc = "done"
  /\ batch.calls = <<Arr(<< >>)>>
  /\ ~batch.waiting
  /\ ~batch.cancelled

\* ------------------------------------------------ claims on the label sets
\* the collected text holds a value for exactly the label sets values were
\* applied under, and it is their signed sum
ExportedIsAppliedSum ==
  lastOp.op = "collect" =>
    /\ DOMAIN exportedValues = lbl.updatedSets
    /\ \A ls \in lbl.updatedSets : exportedValues[ls] = lbl.applied[ls]

\* a call under one label set leaves the value exported for every other one;
\* the call is the step that counts an update, and its label set the one
\* whose applied sum it changes (no value applied is 0)
OtherLabelSetsKept ==
  lbl'.updated > lbl.updated =>
    \A ls \in DOMAIN exportedValues :
      lbl'.applied[ls] = lbl.applied[ls] =>
        /\ ls \in DOMAIN exportedValues'
        /\ exportedValues'[ls] = exportedValues[ls]

\* C21: for a counter or an up-down counter, after any sequence of add, inc,
\* update, observe and dec calls the value collected for a merged label set
\* (the labels of the telemetry, overridden by those of the metric or of the
\* bound facade, overridden by those of the call) is the signed sum of exactly
\* the values applied under that label set, dec(v) counting as -v, and a call
\* under one label set never changes the value exported for another one.
C21_AggregationIsPerLabelSet ==
  /\ []ExportedIsAppliedSum
  /\ [][OtherLabelSetsKept]_vars

\* an up-down counter of a telemetry with labels a=1 was made with labels a=2
\* and a facade was bound with b=1; the collected text holds a negative sum
\* under a=1, which only the labels of a call name, and another sum under the
\* labels of the metric
C21_Witness ==
  /\ lastOp.op = "collect"
  /\ lbl.kind = "UP_DOWN_COUNTER"
  /\ lbl.kLabels = <<LabelSet("1", "")>>
  /\ Len(lbl.facades) = 2
  /\ lbl.facades[1].kLabels = LabelSet("2", "")
  /\ lbl.facades[2].kLabels = LabelSet("2", "1")
  /\ LabelSet("1", "1") \in DOMAIN exportedValues
  /\ exportedValues[LabelSet("1", "1")] < 0
  /\ LabelSet("2", "") \in DOMAIN exportedValues
  /\ exportedValues[LabelSet("2", "")] > 0

\* C24: no update is lost across clear and unbind.  After clear(), or
\* unbind of the metric's own label set, an update called without labels of
\* its own is accumulated by an instrument the metric holds, starting from 0
\* again, and is part of the next collected checkpoint set: the text of a
\* collect() holds, for every label set updated since it was last cleared or
\* unbound, the signed sum of the values applied to it since then.
C24_NoUpdateLostAcrossClear ==
  lastOp.op = "collect" =>
    \A ls \in lbl.updatedSets :
      /\ ls \in DOMAIN exportedValues
      /\ exportedValues[ls] = lbl.applied[ls]

\* -------------------------------------------------- claims on the registry
\* C22: the registry holds at most one metric per name; get(name, factory)
\* invokes the factory at most once per name, and once it has returned a
\* metric for a name, has(name) is true and get(name) returns that metric
\* from then on.
C22_OneMetricPerNameGetMemoizes ==
  \A name \in RegNames :
    /\ reg.factoryCalls[name] <= 1
    /\ reg.got[name] # 0 =>
         /\ registryHas(reg, name)
         /\ reg.kMetrics[name] = reg.got[name]

====
